---------------------------- MODULE Spec2Model ----------------------------
(***************************************************************************)
(* TwinLens client: clock-offset estimation (useNTPSync), composite-job    *)
(* polling (pollStitch) and the booth's synchronized-capture session flow  *)
(* (Booth.jsx), as state machines.                                         *)
(*                                                                         *)
(* Time.  Every instant and duration is an integer number of HALF          *)
(* milliseconds: Date.now() and server_time_ms are whole milliseconds, so  *)
(* they are even numbers here, and rtt / 2 (a JavaScript float division)   *)
(* is exact.  An offset of 3 is 1.5 ms.                                    *)
(***************************************************************************)
EXTENDS Integers, Sequences, FiniteSets, TLC

(***************************************************************************)
(* Bounds of the model                                                     *)
(***************************************************************************)
\* largest round-trip time of a /api/time request, in ms
MaxRttMs == 1
\* largest (server clock - local clock) the time authority answers with, in ms
MaxSkewMs == 1
\* explicit maxAttempts arguments of pollStitch tried beside the default
MaxAttemptsArg == 2
\* FIRE_AT messages one client handles
MaxFires == 2
\* STITCH_READY messages one client handles
MaxReady == 2
\* how far the local clock advances past the end of the mount, in ms
MaxTicks == 2
\* how far ahead of the receiver's clock a fire instant lies, in ms
MaxLeadMs == 1
\* relay sockets one client opens
MaxSockets == 2
\* connectivity losses of one client
MaxOutages == 2
\* PARTNER_JOINED messages a client receives
MaxPartners == 2

(***************************************************************************)
(* Program constants                                                       *)
(***************************************************************************)
\* for (let i = 0; i < 5; i++)
SampleCount == 5
\* setTimeout(r, 100) between two samples: 100 ms
SamplePauseMs == 100
\* pollStitch(sessionId, maxAttempts = 20, ...)
DefaultMaxAttempts == 20

Clients == {0, 1}

\* one millisecond, in the model's unit
Ms == 2

RTTs == {Ms * r : r \in 0..MaxRttMs}
Skews == {Ms * d : d \in 0..MaxSkewMs}

\* JavaScript undefined / a missing field of a JSON body
Undefined == "undefined"

\* useState(null) of peerIndex: no slot assigned yet
NullIdx == -1
IndexVals == {NullIdx, 0, 1}

\* session identifiers, numbered in the order the relay creates them; 0 is
\* the null of useState(null) and useRef(null)
Sessions == 1..MaxFires
NoSession == 0

\* asset references: the secure_url of an upload (public_id
\* twinlens/<sessionId>/peer_<peerIndex>), the url of a finished job, or null
NoUrl == [kind |-> "null", sid |-> NoSession, idx |-> NullIdx]
UploadUrl(sid, idx) == [kind |-> "upload", sid |-> sid, idx |-> idx]
ResultUrl(sid) == [kind |-> "result", sid |-> sid, idx |-> NullIdx]

Max(a, b) == IF a >= b THEN a ELSE b

VARIABLES
    \* ---- useNTPSync, per client
    now,          \* Date.now() of the client
    offsetRef,    \* offsetRef.current
    samples,      \* the samples pushed so far: records [t0, t3, server, offset]
    syncPc,       \* "idle" | "fetch" | "pause" | "done" | "failed"
    syncRet,      \* the value syncClock resolved with (meaningful when "done")
    \* ---- pollStitch (one call)
    pollPc,       \* "idle" | "running" | "returned" | "thrown"
    pollMax,      \* maxAttempts
    pollI,        \* the loop counter i
    pollQueries,  \* status queries issued (fetches of /api/stitch/<id>)
    pollSeen,     \* the statuses the queries reported
    pollFirstTerminal, \* the number of the first query that reported done or error, 0: none
    pollResult,   \* the data returned, or [message |-> ...] of the Error thrown
    \* ---- Booth.jsx and the hooks it uses, per client
    phase,        \* permission | waiting | booth | countdown | flash | result
    stitchStatus, \* "null" | uploading | stitching | done | error
    sessionId,
    pendingSessionRef,
    myUploadUrlRef,
    myPhotoUrl,   \* 0: null, n: the object URL of the blob of capture n
    finalUrl,
    peerIndex,    \* useWebRTC's peerIndex (= peerInfo.index once the effect has run)
    peerCount,
    rtcState,     \* useWebRTC's state
    sockets,      \* the WebSockets connect() made, wsRef.current being the last:
                  \* [idx: the peerInfo.index its handlers closed over,
                  \*  st: connecting | open | closed | closing (by disconnect())
                  \*      | shut (closing, its close event delivered),
                  \*  joined, err: an ERROR message was delivered on it]
    peerIndexRef, \* peerIndexRef.current
    peerRef,      \* peerRef.current: "null" | "initiator" | "answerer"
    remoteStream, \* useWebRTC's remoteStream is set
    offerTimers,  \* pending setTimeout(() => createPeer(true), 1000)
    joinLog,      \* history: peerIndex at each PARTNER_JOINED handled
    peersMade,    \* history: SimplePeer objects made: [initiator, idx]
    leftLog,      \* history: what each PARTNER_LEFT found: [peer, stream, phase]
    online,       \* navigator.onLine
    outages,      \* connectivity losses so far
    dbOpen,       \* dbRef.current is set
    store,        \* the pending_uploads object store: items [id, sid, idx]
    drains,       \* drainQueue runs in progress: [n, todo]
    drainCount,
    timers,       \* pending fire timers: [n, sid, idx, fireAt, local, setAt, due]
    fireCount,    \* FIRE_AT messages handled
    ticks,        \* milliseconds the clock advanced since the mount ended
    readyCount,   \* STITCH_READY messages handled
    captures,     \* doCapture calls in progress: [n, sid, idx, pc]
    stitches,     \* triggerStitch calls in progress: [n, sid, pc]
    \* ---- history, for the properties
    captureLog,   \* doCapture calls made: [n, sid, fireAt, local, setAt, at, pending]
    sentReady,    \* STITCH_READY messages sent: [sid, idx, url]
    submissions,  \* requestStitch calls made: [n, sid, urlA, urlB, msgSid, k]
    failedStitch, \* sessions one of whose triggerStitch calls ended in its catch
    heardReady,   \* STITCH_READY messages handled: [sid, idx]
    retryLog,     \* handleRetryUpload calls of drains that ended: [n, sid, idx, ok]
    drainLog      \* history: the drains started: [n, items: the ids getAll() gave]

syncVars == <<now, offsetRef, samples, syncPc, syncRet>>
pollVars == <<pollPc, pollMax, pollI, pollQueries, pollSeen, pollFirstTerminal, pollResult>>
boothNoPhase == <<stitchStatus, sessionId, pendingSessionRef, myUploadUrlRef,
                  myPhotoUrl, finalUrl, timers, fireCount, readyCount, captures,
                  stitches, captureLog, sentReady, submissions, failedStitch,
                  heardReady>>
boothVars == <<phase, boothNoPhase>>
peerVars == <<peerIndexRef, peerRef, remoteStream, offerTimers, joinLog, peersMade, leftLog>>
rtcVars == <<peerIndex, peerCount, rtcState, sockets, peerVars>>
queueVars == <<online, outages, dbOpen, store, drains, drainCount, retryLog, drainLog>>
vars == <<syncVars, pollVars, boothVars, rtcVars, queueVars, ticks>>

(***************************************************************************)
(* useNTPSync.js                                                           *)
(***************************************************************************)
\* insert x into the ascending sequence s (before the first larger element)
RECURSIVE Insert(_, _)
Insert(x, s) ==
    IF s = <<>> THEN <<x>>
    ELSE IF x < Head(s) THEN <<x>> \o s
    ELSE <<Head(s)>> \o Insert(x, Tail(s))

\* samples.sort((a, b) => a - b): ascending numeric order
RECURSIVE SortAsc(_)
SortAsc(s) == IF s = <<>> THEN <<>> ELSE Insert(Head(s), SortAsc(Tail(s)))

Offsets(s) == [i \in 1..Len(s) |-> s[i].offset]

\* Math.floor(samples.length / 2), as a 1-based position
MidIndex(n) == (n \div 2) + 1

\* samples.sort(...); samples[Math.floor(samples.length / 2)]
MeanPick(offs) == (offs[1] + offs[2] + offs[3] + offs[4] + offs[5]) \div 5
MedianPick(offs) == SortAsc(offs)[MidIndex(Len(offs))]

\* rtt = t3 - t0; serverAtMidpoint = server_time_ms + rtt / 2; offset = serverAtMidpoint - t3
\* (t3 - t0 is a whole number of milliseconds, an even number here, so the
\* division is exact)
SampleOffsetNoRtt(t0, t3, server) == server - t3
SampleOffset(t0, t3, server) == server + ((t3 - t0) \div 2) - t3

\* serverToLocal(serverMs) = serverMs - offsetRef.current
ServerToLocalPlus(c, serverMs) == serverMs + offsetRef[c]
ServerToLocal(c, serverMs) == serverMs - offsetRef[c]

\* syncClock() is called: const samples = []; i = 0; t0 = Date.now(); fetch(...)
SyncStart(c) ==
    /\ syncPc[c] = "idle"
    /\ syncPc' = [syncPc EXCEPT ![c] = "fetch"]
    /\ samples' = [samples EXCEPT ![c] = <<>>]
    /\ UNCHANGED <<now, offsetRef, syncRet>>

\* one /api/time round trip answers after rtt with the body {server_time_ms}:
\* t3 = Date.now(); the sample is pushed; then the 100 ms pause starts
SampleOk(c, rtt, skew) ==
    /\ syncPc[c] = "fetch"
    /\ LET t0 == now[c]
           t3 == now[c] + rtt
           server == t0 + skew
       IN /\ now' = [now EXCEPT ![c] = t3]
          /\ samples' = [samples EXCEPT ![c] =
                Append(@, [t0 |-> t0, t3 |-> t3, server |-> server,
                           offset |-> SampleOffset(t0, t3, server)])]
    /\ syncPc' = [syncPc EXCEPT ![c] = "pause"]
    /\ UNCHANGED <<offsetRef, syncRet>>

\* fetch rejects (network error) or res.json() rejects (no JSON body): nothing
\* catches it inside syncClock, so the promise syncClock returned rejects
SampleFail(c, rtt) ==
    /\ syncPc[c] = "fetch"
    /\ now' = [now EXCEPT ![c] = @ + rtt]
    /\ syncPc' = [syncPc EXCEPT ![c] = "failed"]
    /\ UNCHANGED <<offsetRef, samples, syncRet>>

\* the 100 ms pause ends: the next iteration starts, or, after the last sample,
\* the samples are sorted and the middle one is stored and returned
PauseDone(c) ==
    /\ syncPc[c] = "pause"
    /\ now' = [now EXCEPT ![c] = @ + SamplePauseMs * Ms]
    /\ IF Len(samples[c]) < SampleCount
       THEN /\ syncPc' = [syncPc EXCEPT ![c] = "fetch"]
            /\ UNCHANGED <<offsetRef, syncRet>>
       ELSE /\ offsetRef' = [offsetRef EXCEPT ![c] = MedianPick(Offsets(samples[c]))]
            /\ syncRet' = [syncRet EXCEPT ![c] = MedianPick(Offsets(samples[c]))]
            /\ syncPc' = [syncPc EXCEPT ![c] = "done"]
    /\ UNCHANGED samples

SyncInit ==
    /\ now = [c \in Clients |-> 0]
    /\ offsetRef = [c \in Clients |-> 0]
    /\ samples = [c \in Clients |-> <<>>]
    /\ syncPc = [c \in Clients |-> "idle"]
    /\ syncRet = [c \in Clients |-> 0]

(***************************************************************************)
(* utils/api.js: pollStitch                                                *)
(***************************************************************************)
PendingStatuses == {"queued", "processing"}
ResultUrls == {"https://cdn/final.jpg", Undefined}
ErrorCauses == {Undefined, "", "decode failure"}

\* the JSON bodies GET /api/stitch/<id> answers with
StatusResponses ==
    [status : PendingStatuses, url : {Undefined}, error : {Undefined}]
    \cup [status : {"done"}, url : ResultUrls, error : {Undefined}]
    \cup [status : {"error"}, url : {Undefined}, error : ErrorCauses]

\* data.error || 'Stitch failed'
Falsy(v) == v \in {Undefined, ""}
ErrorMessage(data) == IF Falsy(data.error) THEN "Stitch failed" ELSE data.error

\* pollStitch(sessionId, maxAttempts) is called; with maxAttempts = 0 the loop
\* body never runs and the timeout is thrown at once
PollCall(maxAttempts) ==
    /\ pollPc = "idle"
    /\ pollMax' = maxAttempts
    /\ pollI' = 0
    /\ pollQueries' = 0
    /\ pollSeen' = {}
    /\ pollFirstTerminal' = 0
    /\ IF maxAttempts = 0
       THEN /\ pollPc' = "thrown"
            /\ pollResult' = [message |-> "Stitch timed out"]
       ELSE /\ pollPc' = "running"
            /\ pollResult' = [message |-> Undefined]

\* what the loop does with one status body: "return", "throw" or "continue"
OnStatusIgnoreError(data) == IF data.status = "done" THEN "return" ELSE "continue"
OnStatus(data) ==
    IF data.status = "done" THEN "return"
    ELSE IF data.status = "error" THEN "throw"
    ELSE "continue"

\* i < maxAttempts
LoopGoesOnForever(i, maxAttempts) == TRUE
LoopGoesOn(i, maxAttempts) == i < maxAttempts

\* one iteration: the interval passes, the status is fetched and parsed, and the
\* body is examined; after the last iteration the timeout is thrown
PollIteration(data) ==
    /\ pollPc = "running"
    /\ pollQueries' = pollQueries + 1
    /\ pollSeen' = pollSeen \cup {data.status}
    /\ pollFirstTerminal' =
          IF pollFirstTerminal = 0 /\ data.status \in {"done", "error"}
          THEN pollQueries + 1 ELSE pollFirstTerminal
    /\ CASE OnStatus(data) = "return" ->
                /\ pollPc' = "returned"
                /\ pollResult' = data
                /\ pollI' = pollI
         [] OnStatus(data) = "throw" ->
                /\ pollPc' = "thrown"
                /\ pollResult' = [message |-> ErrorMessage(data)]
                /\ pollI' = pollI
         [] OTHER ->
                /\ pollI' = pollI + 1
                /\ IF LoopGoesOn(pollI + 1, pollMax)
                   THEN /\ pollPc' = "running"
                        /\ pollResult' = pollResult
                   ELSE /\ pollPc' = "thrown"
                        /\ pollResult' = [message |-> "Stitch timed out"]
    /\ UNCHANGED pollMax

\* the fetch of the status rejects, or its body is no JSON: pollStitch rejects
\* with that error
PollFetchFails ==
    /\ pollPc = "running"
    /\ pollQueries' = pollQueries + 1
    /\ pollPc' = "thrown"
    /\ pollResult' = [message |-> "Failed to fetch"]
    /\ UNCHANGED <<pollMax, pollI, pollSeen, pollFirstTerminal>>

PollInit ==
    /\ pollPc = "idle"
    /\ pollMax = 0
    /\ pollI = 0
    /\ pollQueries = 0
    /\ pollSeen = {}
    /\ pollFirstTerminal = 0
    /\ pollResult = [message |-> Undefined]

(***************************************************************************)
(* Booth.jsx, useWebRTC.js, useIndexedDB.js                                *)
(*                                                                         *)
(* ws.onmessage is installed by connect(), which the connect effect calls  *)
(* when the camera stream becomes available.  The handlers it installs     *)
(* (onSignal = handleSignal, and through it doCapture and triggerStitch)   *)
(* are those of the render that ran the effect: the value of               *)
(* peerInfo.index they read is the one of that render, kept in the         *)
(* socket's idx field and passed to the handlers as k.                     *)
(***************************************************************************)
uiVars == <<phase, stitchStatus, sessionId, myPhotoUrl, finalUrl>>
refVars == <<pendingSessionRef, myUploadUrlRef>>
taskVars == <<timers, captures, stitches>>
countVars == <<fireCount, readyCount>>
logVars == <<captureLog, sentReady, submissions, failedStitch, heardReady>>

Upd(f, c, v) == [f EXCEPT ![c] = v]
Add(f, c, x) == [f EXCEPT ![c] = @ \cup {x}]
Del(f, c, x) == [f EXCEPT ![c] = @ \ {x}]

\* wsRef.current?.readyState === WebSocket.OPEN
WsRefOpen(c) == Len(sockets[c]) > 0 /\ sockets[c][Len(sockets[c])].st = "open"

\* setTimeout(..., Math.max(delay, 0))
TimerDelayNone(delay) == 0
TimerDelay(delay) == Max(delay, 0)

\* case 'FIRE_AT' of handleSignal
OnFireAt(c, k, sid, fireAt) ==
    LET localFireTime == ServerToLocal(c, fireAt)
        delay == localFireTime - now[c]
    IN /\ sessionId' = Upd(sessionId, c, sid)
       /\ pendingSessionRef' = Upd(pendingSessionRef, c, sid)
       /\ phase' = Upd(phase, c, "countdown")
       /\ timers' = Add(timers, c,
             [n |-> fireCount[c] + 1, sid |-> sid, idx |-> k, fireAt |-> fireAt,
              local |-> localFireTime, setAt |-> now[c],
              due |-> now[c] + TimerDelay(delay)])
       /\ fireCount' = Upd(fireCount, c, fireCount[c] + 1)
       /\ UNCHANGED <<stitchStatus, myPhotoUrl, finalUrl, myUploadUrlRef, captures,
                      stitches, readyCount, logVars>>

\* the fire timer of a FIRE_AT runs: doCapture(sid) up to await captureStill()
FireTimer(c, t) ==
    /\ t \in timers[c]
    /\ now[c] >= t.due
    /\ timers' = Del(timers, c, t)
    /\ phase' = Upd(phase, c, "flash")
    /\ captures' = Add(captures, c, [n |-> t.n, sid |-> t.sid, idx |-> t.idx, pc |-> "still"])
    /\ captureLog' = Add(captureLog, c,
          [n |-> t.n, sid |-> t.sid, fireAt |-> t.fireAt, local |-> t.local,
           setAt |-> t.setAt, at |-> now[c], pending |-> pendingSessionRef[c]])
    /\ UNCHANGED <<stitchStatus, sessionId, myPhotoUrl, finalUrl, refVars, stitches,
                   countVars, sentReady, submissions, failedStitch, heardReady>>

\* captureStill() resolved with something that is no Blob (canvas.toBlob gave
\* null): console.error, return
CaptureNotBlob(c, task) ==
    /\ task \in captures[c] /\ task.pc = "still"
    /\ captures' = Del(captures, c, task)
    /\ UNCHANGED <<uiVars, refVars, timers, stitches, countVars, logVars>>

\* captureStill() rejected (no video track, no video element): the catch
CaptureThrows(c, task) ==
    /\ task \in captures[c] /\ task.pc = "still"
    /\ captures' = Del(captures, c, task)
    /\ stitchStatus' = Upd(stitchStatus, c, "error")
    /\ UNCHANGED <<phase, sessionId, myPhotoUrl, finalUrl, refVars, timers, stitches,
                   countVars, logVars>>

\* enqueue(item): if (!dbRef.current) return; put({...item}) under item.id
Enqueue(c, item) ==
    IF dbOpen[c]
    THEN [store EXCEPT ![c] = {x \in @ : x.id # item.id} \cup {item}]
    ELSE store

\* captureStill() resolved with a Blob while navigator.onLine is false: the
\* preview is shown and enqueue(...) is called and awaited
CaptureOffline(c, task) ==
    /\ task \in captures[c] /\ task.pc = "still"
    /\ ~online[c]
    /\ myPhotoUrl' = Upd(myPhotoUrl, c, task.n)
    /\ stitchStatus' = Upd(stitchStatus, c, "uploading")
    /\ phase' = Upd(phase, c, "result")
    /\ store' = Enqueue(c, [id |-> task.sid, sid |-> task.sid, idx |-> task.idx])
    /\ captures' = [captures EXCEPT ![c] = (@ \ {task}) \cup {[task EXCEPT !.pc = "enqueued"]}]
    /\ UNCHANGED <<sessionId, finalUrl, refVars, timers, stitches, countVars, logVars>>

\* ... while navigator.onLine is true: uploadToCloudinary(...) is called and awaited
CaptureOnline(c, task) ==
    /\ task \in captures[c] /\ task.pc = "still"
    /\ online[c]
    /\ myPhotoUrl' = Upd(myPhotoUrl, c, task.n)
    /\ stitchStatus' = Upd(stitchStatus, c, "uploading")
    /\ phase' = Upd(phase, c, "result")
    /\ captures' = [captures EXCEPT ![c] = (@ \ {task}) \cup {[task EXCEPT !.pc = "upload"]}]
    /\ UNCHANGED <<sessionId, finalUrl, refVars, timers, stitches, countVars, logVars>>

\* await enqueue(...) returns: setStitchStatus('error'); return
EnqueueReturns(c, task) ==
    /\ task \in captures[c] /\ task.pc = "enqueued"
    /\ captures' = Del(captures, c, task)
    /\ stitchStatus' = Upd(stitchStatus, c, "error")
    /\ UNCHANGED <<phase, sessionId, myPhotoUrl, finalUrl, refVars, timers, stitches,
                   countVars, logVars>>

\* the upload resolved with secure_url: the ref and the status are set and
\* STITCH_READY is handed to sendSignal, which sends it if the socket is open
UploadDone(c, task) ==
    /\ task \in captures[c] /\ task.pc = "upload"
    /\ captures' = Del(captures, c, task)
    /\ myUploadUrlRef' = Upd(myUploadUrlRef, c, UploadUrl(task.sid, task.idx))
    /\ stitchStatus' = Upd(stitchStatus, c, "stitching")
    /\ sentReady' = IF WsRefOpen(c)
                    THEN Add(sentReady, c, [sid |-> task.sid, idx |-> task.idx,
                                            url |-> UploadUrl(task.sid, task.idx)])
                    ELSE sentReady
    /\ UNCHANGED <<phase, sessionId, myPhotoUrl, finalUrl, pendingSessionRef, timers,
                   stitches, countVars, captureLog, submissions, failedStitch,
                   heardReady>>

\* (a catch that announced the capture all the same)
UploadFailsAnnounces(c, task) ==
    /\ task \in captures[c] /\ task.pc = "upload"
    /\ captures' = Del(captures, c, task)
    /\ stitchStatus' = Upd(stitchStatus, c, "error")
    /\ sentReady' = Add(sentReady, c, [sid |-> task.sid, idx |-> task.idx,
                                       url |-> UploadUrl(task.sid, task.idx)])
    /\ UNCHANGED <<phase, sessionId, myPhotoUrl, finalUrl, refVars, timers, stitches,
                   countVars, captureLog, submissions, failedStitch, heardReady>>

\* the upload rejected (fetch failed, or !res.ok): the catch
UploadFails(c, task) ==
    /\ task \in captures[c] /\ task.pc = "upload"
    /\ captures' = Del(captures, c, task)
    /\ stitchStatus' = Upd(stitchStatus, c, "error")
    /\ UNCHANGED <<phase, sessionId, myPhotoUrl, finalUrl, refVars, timers, stitches,
                   countVars, logVars>>

\* the condition of case 'STITCH_READY' of handleSignal
ReadyTriggers(c, k, msg) ==
    /\ msg.peer_index # k
    /\ myUploadUrlRef[c] # NoUrl
    /\ pendingSessionRef[c] # NoSession

\* case 'STITCH_READY' of handleSignal; triggerStitch runs up to
\* await requestStitch(...), whose POST is then on its way
OnStitchReady(c, k, msg) ==
    /\ readyCount' = Upd(readyCount, c, readyCount[c] + 1)
    /\ heardReady' = Add(heardReady, c, [sid |-> msg.session_id, idx |-> msg.peer_index])
    /\ IF ReadyTriggers(c, k, msg)
       THEN LET urlA == IF k = 0 THEN myUploadUrlRef[c] ELSE msg.url
                urlB == IF k = 0 THEN msg.url ELSE myUploadUrlRef[c]
                sid == pendingSessionRef[c]
            IN /\ stitches' = Add(stitches, c,
                     [n |-> readyCount[c] + 1, sid |-> sid, pc |-> "request"])
               /\ submissions' = Add(submissions, c,
                     [n |-> readyCount[c] + 1, sid |-> sid, urlA |-> urlA, urlB |-> urlB,
                      msgSid |-> msg.session_id, k |-> k])
       ELSE UNCHANGED <<stitches, submissions>>
    /\ UNCHANGED <<uiVars, refVars, timers, captures, fireCount, captureLog,
                   sentReady, failedStitch>>

\* await requestStitch(...) returned (whatever the response): pollStitch(sid) starts
StitchRequestReturns(c, t) ==
    /\ t \in stitches[c] /\ t.pc = "request"
    /\ stitches' = [stitches EXCEPT ![c] = (@ \ {t}) \cup {[t EXCEPT !.pc = "poll"]}]
    /\ UNCHANGED <<uiVars, refVars, timers, captures, countVars, logVars>>

\* requestStitch rejected (fetch failed, body no JSON): the catch
StitchRequestFails(c, t) ==
    /\ t \in stitches[c] /\ t.pc = "request"
    /\ stitches' = Del(stitches, c, t)
    /\ stitchStatus' = Upd(stitchStatus, c, "error")
    /\ failedStitch' = Add(failedStitch, c, t.sid)
    /\ UNCHANGED <<phase, sessionId, myPhotoUrl, finalUrl, refVars, timers, captures,
                   countVars, captureLog, sentReady, submissions, heardReady>>

\* pollStitch returned the finished job: setFinalUrl(result.url); setStitchStatus('done')
StitchPollReturns(c, t) ==
    /\ t \in stitches[c] /\ t.pc = "poll"
    /\ stitches' = Del(stitches, c, t)
    /\ finalUrl' = Upd(finalUrl, c, ResultUrl(t.sid))
    /\ stitchStatus' = Upd(stitchStatus, c, "done")
    /\ UNCHANGED <<phase, sessionId, myPhotoUrl, refVars, timers, captures, countVars,
                   logVars>>

\* pollStitch threw (job error, 'Stitch timed out', failed fetch): the catch
StitchPollThrows(c, t) ==
    /\ t \in stitches[c] /\ t.pc = "poll"
    /\ stitches' = Del(stitches, c, t)
    /\ stitchStatus' = Upd(stitchStatus, c, "error")
    /\ failedStitch' = Add(failedStitch, c, t.sid)
    /\ UNCHANGED <<phase, sessionId, myPhotoUrl, finalUrl, refVars, timers, captures,
                   countVars, captureLog, sentReady, submissions, heardReady>>

\* resetBooth, the "take another" button of the result view
ResetBooth(c) ==
    /\ phase[c] = "result"
    /\ phase' = Upd(phase, c, IF peerCount[c] = 2 THEN "booth" ELSE "waiting")
    /\ myPhotoUrl' = Upd(myPhotoUrl, c, 0)
    /\ finalUrl' = Upd(finalUrl, c, NoUrl)
    /\ stitchStatus' = Upd(stitchStatus, c, "null")
    /\ pendingSessionRef' = Upd(pendingSessionRef, c, NoSession)
    /\ myUploadUrlRef' = Upd(myUploadUrlRef, c, NoUrl)
    /\ UNCHANGED <<sessionId, taskVars, countVars, logVars>>

\* the local clock advances by one millisecond
Tick(c) ==
    /\ ticks[c] < MaxTicks
    /\ ticks' = Upd(ticks, c, ticks[c] + 1)
    /\ now' = Upd(now, c, now[c] + Ms)
    /\ UNCHANGED <<offsetRef, samples, syncPc, syncRet>>

\* the effect on [peerIndex, peerCount]: when one of them changed,
\* if (peerCount === 2) setPhase('booth')
\* else if (peerCount < 2 && phase === 'booth') setPhase('waiting')
PhaseAfterPeers(c, idx, count) ==
    IF idx = peerIndex[c] /\ count = peerCount[c] THEN phase[c]
    ELSE IF count = 2 THEN "booth"
    ELSE IF count < 2 /\ phase[c] = "booth" THEN "waiting"
    ELSE phase[c]

SocketSet(c, i, field, v) ==
    [sockets EXCEPT ![c] = [@ EXCEPT ![i] = [@ EXCEPT ![field] = v]]]

\* ws.onopen
SocketOpens(c, i) ==
    /\ i \in 1..Len(sockets[c])
    /\ sockets[c][i].st = "connecting"
    /\ sockets' = SocketSet(c, i, "st", "open")
    /\ UNCHANGED <<peerIndex, peerCount, rtcState, phase, peerVars>>

\* ws.onclose, of a socket the other side closed or of one disconnect()
\* closed: setState(DISCONNECTED)
SocketCloses(c, i) ==
    /\ i \in 1..Len(sockets[c])
    /\ sockets[c][i].st \in {"open", "closing"}
    /\ sockets' = SocketSet(c, i, "st",
                            IF sockets[c][i].st = "closing" THEN "shut" ELSE "closed")
    /\ rtcState' = Upd(rtcState, c, "disconnected")
    /\ UNCHANGED <<peerIndex, peerCount, phase, peerVars>>

\* case 'JOINED': setPeerIndex(msg.peer_index); setPeerCount(msg.peers_count)
OnJoined(c, idx, count) ==
    /\ peerIndex' = Upd(peerIndex, c, idx)
    /\ peerCount' = Upd(peerCount, c, count)
    /\ phase' = Upd(phase, c, PhaseAfterPeers(c, idx, count))
    /\ UNCHANGED <<rtcState, peerVars>>

\* the effect on [peerIndex], run after the render that follows setPeerIndex:
\* peerIndexRef.current = peerIndex
PeerIndexEffect(c) ==
    /\ peerIndexRef[c] # peerIndex[c]
    /\ peerIndexRef' = Upd(peerIndexRef, c, peerIndex[c])
    /\ UNCHANGED <<peerIndex, peerCount, rtcState, sockets, phase, peerRef, remoteStream,
                   offerTimers, joinLog, peersMade, leftLog>>

\* localStreamRef.current: the camera stream, which the connect effect waits for
LocalStream(c) == Len(sockets[c]) > 0

\* createPeer(initiator): without a stream it returns; else destroyPeer() and
\* peerRef.current = new SimplePeer({initiator, ...})
CreatePeer(c, initiator) ==
    IF LocalStream(c)
    THEN /\ peerRef' = Upd(peerRef, c, IF initiator THEN "initiator" ELSE "answerer")
         /\ peersMade' = Add(peersMade, c, [initiator |-> initiator, idx |-> peerIndex[c]])
    ELSE UNCHANGED <<peerRef, peersMade>>

\* case 'PARTNER_JOINED': setPeerCount(2); setState(PARTNER_JOINED);
\* if (peerIndexRef.current === 0) setTimeout(() => createPeer(true), 1000)
OnPartnerJoined(c) ==
    /\ peerCount' = Upd(peerCount, c, 2)
    /\ rtcState' = Upd(rtcState, c, "partner_joined")
    /\ phase' = Upd(phase, c, PhaseAfterPeers(c, peerIndex[c], 2))
    /\ offerTimers' = IF peerIndexRef[c] = 0
                      THEN Upd(offerTimers, c, offerTimers[c] + 1)
                      ELSE offerTimers
    /\ joinLog' = Upd(joinLog, c, Append(joinLog[c], peerIndex[c]))
    /\ UNCHANGED <<peerIndex, peerIndexRef, peerRef, remoteStream, peersMade, leftLog>>

\* the timeout of PARTNER_JOINED runs: createPeer(true)
OfferTimerFires(c) ==
    /\ offerTimers[c] > 0
    /\ offerTimers' = Upd(offerTimers, c, offerTimers[c] - 1)
    /\ CreatePeer(c, TRUE)
    /\ UNCHANGED <<peerIndex, peerCount, rtcState, sockets, phase, peerIndexRef,
                   remoteStream, joinLog, leftLog>>

\* case 'OFFER': if (!peerRef.current) createPeer(false); peerRef.current.signal(...)
OnOffer(c) ==
    /\ IF peerRef[c] = "null" THEN CreatePeer(c, FALSE) ELSE UNCHANGED <<peerRef, peersMade>>
    /\ UNCHANGED <<peerIndex, peerCount, rtcState, phase, peerIndexRef, remoteStream,
                   offerTimers, joinLog, leftLog>>

\* peer.on('stream'): setRemoteStream(stream); setState(CONNECTED)
PeerStream(c) ==
    /\ peerRef[c] # "null"
    /\ remoteStream' = Upd(remoteStream, c, TRUE)
    /\ rtcState' = Upd(rtcState, c, "connected")
    /\ UNCHANGED <<peerIndex, peerCount, sockets, phase, peerIndexRef, peerRef,
                   offerTimers, joinLog, peersMade, leftLog>>

\* (a PARTNER_LEFT handler that kept the peer connection and the remote stream)
OnPartnerLeftKeepsPeer(c) ==
    /\ peerCount' = Upd(peerCount, c, 1)
    /\ rtcState' = Upd(rtcState, c, "disconnected")
    /\ phase' = Upd(phase, c, PhaseAfterPeers(c, peerIndex[c], 1))
    /\ leftLog' = Add(leftLog, c,
          [peer |-> peerRef[c], stream |-> remoteStream[c], phase |-> phase[c]])
    /\ UNCHANGED <<peerIndex, peerIndexRef, peerRef, remoteStream, offerTimers, joinLog,
                   peersMade>>

\* case 'PARTNER_LEFT': setPeerCount(1); setState(DISCONNECTED); destroyPeer();
\* setRemoteStream(null)
OnPartnerLeft(c) ==
    /\ peerCount' = Upd(peerCount, c, 1)
    /\ rtcState' = Upd(rtcState, c, "disconnected")
    /\ phase' = Upd(phase, c, PhaseAfterPeers(c, peerIndex[c], 1))
    /\ peerRef' = Upd(peerRef, c, "null")
    /\ remoteStream' = Upd(remoteStream, c, FALSE)
    /\ leftLog' = Add(leftLog, c,
          [peer |-> peerRef[c], stream |-> remoteStream[c], phase |-> phase[c]])
    /\ UNCHANGED <<peerIndex, peerIndexRef, offerTimers, joinLog, peersMade>>

\* disconnect(): wsRef.current?.close(); wsRef.current = null; destroyPeer();
\* setState(IDLE); setRemoteStream(null).  The socket's handlers stay
\* installed and a pending createPeer timeout is not cleared.
Disconnect(c) ==
    /\ Len(sockets[c]) > 0
    /\ sockets[c][Len(sockets[c])].st \in {"connecting", "open"}
    /\ sockets' = SocketSet(c, Len(sockets[c]), "st", "closing")
    /\ peerRef' = Upd(peerRef, c, "null")
    /\ rtcState' = Upd(rtcState, c, "idle")
    /\ remoteStream' = Upd(remoteStream, c, FALSE)
    /\ UNCHANGED <<peerIndex, peerCount, phase, peerIndexRef, offerTimers, joinLog,
                   peersMade, leftLog>>

\* an ERROR message: the switch has no case for it; default: onSignal(msg),
\* and handleSignal acts on FIRE_AT and STITCH_READY only
OnError(c) ==
    UNCHANGED <<peerIndex, peerCount, rtcState, phase, peerVars>>

\* connect(roomId): setState(CONNECTING); a new WebSocket whose handlers close
\* over the current peerInfo.index; wsRef.current = ws
Connect(c) ==
    /\ sockets' = [sockets EXCEPT ![c] =
          Append(@, [idx |-> peerIndex[c], st |-> "connecting", joined |-> FALSE,
                     err |-> FALSE])]
    /\ rtcState' = Upd(rtcState, c, "connecting")

\* the "Allow Camera" button of the permission screen, and getUserMedia
\* succeeding: startCam().then(() => setPhase('waiting')); the stream is a new
\* object, so the connect effect runs again
Retry(c) ==
    /\ phase[c] = "permission"
    /\ Len(sockets[c]) < MaxSockets
    /\ Connect(c)
    /\ phase' = Upd(phase, c, "waiting")
    /\ UNCHANGED <<peerIndex, peerCount, peerVars>>

(***************************************************************************)
(* The relay, as the client sees it (spec 4.3, 4.4, 6): JOINED is the      *)
(* first message on a socket; the coordination messages follow.            *)
(***************************************************************************)
SocketReady(c, i) ==
    /\ i \in 1..Len(sockets[c])
    /\ sockets[c][i].st = "open"
    /\ sockets[c][i].joined

RelayJoined(c, i, idx, count) ==
    /\ i \in 1..Len(sockets[c])
    /\ sockets[c][i].st = "open"
    /\ ~sockets[c][i].joined
    /\ sockets' = SocketSet(c, i, "joined", TRUE)
    /\ OnJoined(c, idx, count)

RelayPartnerJoined(c, i) ==
    /\ SocketReady(c, i)
    /\ peerCount[c] = 1
    /\ Len(joinLog[c]) < MaxPartners
    /\ OnPartnerJoined(c)
    /\ UNCHANGED sockets

RelayPartnerLeft(c, i) ==
    /\ SocketReady(c, i)
    /\ peerCount[c] = 2
    /\ OnPartnerLeft(c)
    /\ UNCHANGED sockets

\* the OFFER of the partner in slot 0, relayed to the client in slot 1
RelayOffer(c, i) ==
    /\ SocketReady(c, i)
    /\ peerCount[c] = 2
    /\ peerIndex[c] = 1
    /\ OnOffer(c)
    /\ UNCHANGED sockets

\* ERROR (room full, invalid state), once per socket
RelayError(c, i) ==
    /\ i \in 1..Len(sockets[c])
    /\ sockets[c][i].st = "open"
    /\ ~sockets[c][i].err
    /\ sockets' = SocketSet(c, i, "err", TRUE)
    /\ OnError(c)

RelayFireAt(c, i, sid, fireAt) ==
    /\ SocketReady(c, i)
    /\ fireCount[c] < MaxFires
    /\ OnFireAt(c, sockets[c][i].idx, sid, fireAt)

\* the STITCH_READY messages a partner sends: its peer index as its own
\* handlers read it, and the url of its upload for that session
ReadyMessages ==
    {[session_id |-> s, peer_index |-> x, url |-> UploadUrl(s, x)] :
        s \in Sessions, x \in IndexVals}

RelayStitchReady(c, i, msg) ==
    /\ SocketReady(c, i)
    /\ readyCount[c] < MaxReady
    /\ OnStitchReady(c, sockets[c][i].idx, msg)

(***************************************************************************)
(* useIndexedDB.js and connectivity                                        *)
(***************************************************************************)
\* openDB().then(db => { dbRef.current = db })
DbOpens(c) ==
    /\ ~dbOpen[c]
    /\ dbOpen' = Upd(dbOpen, c, TRUE)
    /\ UNCHANGED <<online, outages, store, drains, drainCount, retryLog, drainLog>>

\* the window's 'offline' event
GoOffline(c) ==
    /\ online[c]
    /\ outages[c] < MaxOutages
    /\ online' = Upd(online, c, FALSE)
    /\ outages' = Upd(outages, c, outages[c] + 1)
    /\ UNCHANGED <<dbOpen, store, drains, drainCount, retryLog, drainLog>>

\* getAll(): the items in key order (the key is <sessionId>_upload)
SessionOrder == [j \in 1..MaxFires |-> j]
StoreSeq(S) ==
    LET ids == SelectSeq(SessionOrder, LAMBDA s : \E x \in S : x.id = s)
    IN [j \in 1..Len(ids) |-> CHOOSE x \in S : x.id = ids[j]]

\* the window's 'online' event: handleOnline calls drainQueue(), which
\* returns if dbRef.current is unset and else reads all items and starts the loop
GoOnline(c) ==
    /\ ~online[c]
    /\ online' = Upd(online, c, TRUE)
    /\ IF dbOpen[c] /\ store[c] # {}
       THEN /\ drains' = Add(drains, c, [n |-> drainCount[c] + 1, todo |-> StoreSeq(store[c])])
            /\ drainCount' = Upd(drainCount, c, drainCount[c] + 1)
            /\ drainLog' = Add(drainLog, c,
                  [n |-> drainCount[c] + 1, items |-> {x.id : x \in store[c]}])
       ELSE UNCHANGED <<drains, drainCount, drainLog>>
    /\ UNCHANGED <<outages, dbOpen, store, retryLog>>

DrainAdvance(c, d) ==
    IF Len(d.todo) = 1 THEN Del(drains, c, d)
    ELSE [drains EXCEPT ![c] = (@ \ {d}) \cup {[d EXCEPT !.todo = Tail(@)]}]

\* await onUploadReadyRef.current(item) resolved (handleRetryUpload returns the
\* url of the upload); dequeue(item.id): if (!dbRef.current) return; delete(id)
DrainUploadDone(c, d) ==
    /\ d \in drains[c]
    /\ store' = IF dbOpen[c]
                THEN [store EXCEPT ![c] = {x \in @ : x.id # Head(d.todo).id}]
                ELSE store
    /\ drains' = DrainAdvance(c, d)
    /\ retryLog' = Add(retryLog, c,
          [n |-> d.n, sid |-> Head(d.todo).sid, idx |-> Head(d.todo).idx, ok |-> TRUE])
    /\ UNCHANGED <<online, outages, dbOpen, drainCount, drainLog>>

\* (a drain that dropped the item whose upload was rejected)
DrainUploadFailsDequeues(c, d) ==
    /\ d \in drains[c]
    /\ store' = [store EXCEPT ![c] = {x \in @ : x.id # Head(d.todo).id}]
    /\ drains' = DrainAdvance(c, d)
    /\ retryLog' = Add(retryLog, c,
          [n |-> d.n, sid |-> Head(d.todo).sid, idx |-> Head(d.todo).idx, ok |-> FALSE])
    /\ UNCHANGED <<online, outages, dbOpen, drainCount, drainLog>>

\* (a drain that gave up at the first rejected upload)
DrainUploadFailsStops(c, d) ==
    /\ d \in drains[c]
    /\ drains' = Del(drains, c, d)
    /\ retryLog' = Add(retryLog, c,
          [n |-> d.n, sid |-> Head(d.todo).sid, idx |-> Head(d.todo).idx, ok |-> FALSE])
    /\ UNCHANGED <<online, outages, dbOpen, store, drainCount, drainLog>>

\* ... rejected: console.warn, and the loop goes on with the next item
DrainUploadFails(c, d) ==
    /\ d \in drains[c]
    /\ drains' = DrainAdvance(c, d)
    /\ retryLog' = Add(retryLog, c,
          [n |-> d.n, sid |-> Head(d.todo).sid, idx |-> Head(d.todo).idx, ok |-> FALSE])
    /\ UNCHANGED <<online, outages, dbOpen, store, drainCount, drainLog>>

(***************************************************************************)
(* Booth.jsx: the mount effect                                             *)
(***************************************************************************)
\* init(): await startCam() resolved (getUserMedia gave a stream):
\* setPhase('waiting'); syncClock() is called; setStream/setReady make the
\* connect effect run connect(roomId).  (When startCam() rejects, the catch
\* sets the phase to 'permission', which it already is.)
InitStartCam(c) ==
    /\ Len(sockets[c]) = 0
    /\ SyncStart(c)
    /\ Connect(c)
    /\ phase' = Upd(phase, c, "waiting")
    /\ UNCHANGED <<peerIndex, peerCount, peerVars>>

\* init(): what follows await syncClock() when it rejects: the catch,
\* setPhase('permission')
InitCatch(c, rtt) ==
    /\ SampleFail(c, rtt)
    /\ phase' = Upd(phase, c, "permission")

(***************************************************************************)
(* Specifications                                                          *)
(***************************************************************************)
\* the local clock of a client whose estimate of 5 round trips of 1 ms, begun
\* at 0, has just ended
MountEnd == SampleCount * (Ms + SamplePauseMs * Ms)

\* the samples of a syncClock begun at the local instant start whose five
\* round trips all took rtt and were all answered with the local send time
\* plus skew
EqualSamples(start, rtt, skew) ==
    [j \in 1..SampleCount |->
        LET t0 == start + (j - 1) * (rtt + SamplePauseMs * Ms)
        IN [t0 |-> t0, t3 |-> t0 + rtt, server |-> t0 + skew,
            offset |-> SampleOffset(t0, t0 + rtt, t0 + skew)]]

\* a client when its mount has ended well: the camera runs, syncClock has
\* resolved, init() has set the phase to 'waiting'
SyncedMount(start, rtt, skew) ==
    [now |-> start + SampleCount * (rtt + SamplePauseMs * Ms),
     offsetRef |-> MedianPick(Offsets(EqualSamples(start, rtt, skew))),
     samples |-> EqualSamples(start, rtt, skew),
     syncPc |-> "done",
     phase |-> "waiting"]

\* a client whose first /api/time request failed: the catch of init() has set
\* the phase to 'permission', the offset is still 0
FailedMount ==
    [now |-> MountEnd, offsetRef |-> 0, samples |-> <<>>, syncPc |-> "failed",
     phase |-> "permission"]

\* three mounts that end when the server's clock shows MountEnd: a client
\* whose clock agrees with the server's and whose replies took the whole round
\* trip (estimate -0.5 ms), one whose clock is 1 ms behind (estimate 1 ms), and
\* one without an estimate (0)
BoothMounts ==
    {SyncedMount(0, Ms, 0),
     SyncedMount(MountEnd - Ms - SampleCount * SamplePauseMs * Ms, 0, Ms),
     FailedMount}

\* nothing captured, uploaded or submitted yet
CaptureIdle ==
    /\ stitchStatus = [c \in Clients |-> "null"]
    /\ sessionId = [c \in Clients |-> NoSession]
    /\ pendingSessionRef = [c \in Clients |-> NoSession]
    /\ myUploadUrlRef = [c \in Clients |-> NoUrl]
    /\ myPhotoUrl = [c \in Clients |-> 0]
    /\ finalUrl = [c \in Clients |-> NoUrl]
    /\ timers = [c \in Clients |-> {}]
    /\ fireCount = [c \in Clients |-> 0]
    /\ readyCount = [c \in Clients |-> 0]
    /\ ticks = [c \in Clients |-> 0]
    /\ captures = [c \in Clients |-> {}]
    /\ stitches = [c \in Clients |-> {}]
    /\ captureLog = [c \in Clients |-> {}]
    /\ sentReady = [c \in Clients |-> {}]
    /\ submissions = [c \in Clients |-> {}]
    /\ failedStitch = [c \in Clients |-> {}]
    /\ heardReady = [c \in Clients |-> {}]

\* no peer connection, no partner heard of
PeerIdle ==
    /\ peerIndexRef = [c \in Clients |-> NullIdx]
    /\ peerRef = [c \in Clients |-> "null"]
    /\ remoteStream = [c \in Clients |-> FALSE]
    /\ offerTimers = [c \in Clients |-> 0]
    /\ joinLog = [c \in Clients |-> <<>>]
    /\ peersMade = [c \in Clients |-> {}]
    /\ leftLog = [c \in Clients |-> {}]

\* online, the database not opened yet, nothing queued
QueueIdle ==
    /\ online = [c \in Clients |-> TRUE]
    /\ outages = [c \in Clients |-> 0]
    /\ dbOpen = [c \in Clients |-> FALSE]
    /\ store = [c \in Clients |-> {}]
    /\ drains = [c \in Clients |-> {}]
    /\ drainCount = [c \in Clients |-> 0]
    /\ retryLog = [c \in Clients |-> {}]
    /\ drainLog = [c \in Clients |-> {}]

\* the state once the clients in `active` are mounted (m: how each mount
\* ended); the connect effect has run once, before any JOINED
MountedInit(active, m) ==
    LET mt(c) == IF c \in active THEN m[c] ELSE FailedMount
    IN /\ now = [c \in Clients |-> mt(c).now]
       /\ offsetRef = [c \in Clients |-> mt(c).offsetRef]
       /\ samples = [c \in Clients |-> mt(c).samples]
       /\ syncPc = [c \in Clients |-> mt(c).syncPc]
       /\ syncRet = [c \in Clients |-> mt(c).offsetRef]
       /\ phase = [c \in Clients |-> mt(c).phase]
       /\ sockets = [c \in Clients |->
             <<[idx |-> NullIdx, st |-> "connecting", joined |-> FALSE, err |-> FALSE]>>]
       /\ rtcState = [c \in Clients |-> "connecting"]
       /\ peerIndex = [c \in Clients |-> NullIdx]
       /\ peerCount = [c \in Clients |-> 0]
       /\ PeerIdle
       /\ CaptureIdle
       /\ QueueIdle

\* the state before anything is mounted: useState('permission'), no socket
IdleInit ==
    /\ SyncInit
    /\ PollInit
    /\ phase = [c \in Clients |-> "permission"]
    /\ sockets = [c \in Clients |-> <<>>]
    /\ rtcState = [c \in Clients |-> "idle"]
    /\ peerIndex = [c \in Clients |-> NullIdx]
    /\ peerCount = [c \in Clients |-> 0]
    /\ PeerIdle
    /\ CaptureIdle
    /\ QueueIdle

\* the state once both clients have joined the room over their first socket:
\* JOINED has set the indices, PARTNER_JOINED told client 0 of client 1 (its
\* offer timer is pending), the effect on peerCount has set the phase to 'booth'
JoinedInit(m) ==
    /\ now = [c \in Clients |-> m[c].now]
    /\ offsetRef = [c \in Clients |-> m[c].offsetRef]
    /\ samples = [c \in Clients |-> m[c].samples]
    /\ syncPc = [c \in Clients |-> m[c].syncPc]
    /\ syncRet = [c \in Clients |-> m[c].offsetRef]
    /\ phase = [c \in Clients |-> "booth"]
    /\ sockets = [c \in Clients |->
          <<[idx |-> NullIdx, st |-> "open", joined |-> TRUE, err |-> FALSE]>>]
    /\ rtcState = [c \in Clients |-> IF c = 0 THEN "partner_joined" ELSE "connecting"]
    /\ peerIndex = [c \in Clients |-> c]
    /\ peerCount = [c \in Clients |-> 2]
    /\ peerIndexRef = [c \in Clients |-> c]
    /\ peerRef = [c \in Clients |-> "null"]
    /\ remoteStream = [c \in Clients |-> FALSE]
    /\ offerTimers = [c \in Clients |-> IF c = 0 THEN 1 ELSE 0]
    /\ joinLog = [c \in Clients |-> IF c = 0 THEN <<0>> ELSE <<>>]
    /\ peersMade = [c \in Clients |-> {}]
    /\ leftLog = [c \in Clients |-> {}]
    /\ CaptureIdle
    /\ QueueIdle
    /\ PollInit

\* the fire instants the relay announces: from 1 ms before the server's clock
\* at the end of the mounts to MaxLeadMs after it
FireInstants == {MountEnd + Ms * j : j \in (0 - 1)..MaxLeadMs}

\* a fire instant that has passed when its FIRE_AT arrives
LateInstants == {MountEnd - Ms}

\* the session identifier of a client's next FIRE_AT: a new one per capture request
NextSession(c) == SessionOrder[fireCount[c] + 1]

\* what a step of Booth's capture flow leaves alone, and what a step of
\* useWebRTC, of useNTPSync, of pollStitch leaves alone
BoothOnly == UNCHANGED <<syncVars, ticks, rtcVars, pollVars, queueVars>>
RtcOnly == UNCHANGED <<syncVars, ticks, boothNoPhase, pollVars, queueVars>>
SyncOnly == UNCHANGED <<boothVars, ticks, rtcVars, pollVars, queueVars>>
PollOnly == UNCHANGED <<syncVars, boothVars, ticks, rtcVars, queueVars>>

\* FIRE_AT arriving with one of the instants, a fire timer running
FireStep(c, instants) ==
    \/ \E fireAt \in instants : RelayFireAt(c, 1, NextSession(c), fireAt) /\ BoothOnly
    \/ \E t \in timers[c] : FireTimer(c, t) /\ BoothOnly

\* the continuations of doCapture while the client is online
CaptureStep(c) ==
    \/ \E task \in captures[c] : CaptureNotBlob(c, task) /\ BoothOnly
    \/ \E task \in captures[c] : CaptureThrows(c, task) /\ BoothOnly
    \/ \E task \in captures[c] : CaptureOnline(c, task) /\ BoothOnly
    \/ \E task \in captures[c] : UploadDone(c, task) /\ BoothOnly
    \/ \E task \in captures[c] : UploadFails(c, task) /\ BoothOnly

\* STITCH_READY arriving, the continuations of triggerStitch, resetBooth
StitchStep(c) ==
    \/ \E msg \in ReadyMessages : RelayStitchReady(c, 1, msg) /\ BoothOnly
    \/ \E t \in stitches[c] : StitchRequestReturns(c, t) /\ BoothOnly
    \/ \E t \in stitches[c] : StitchRequestFails(c, t) /\ BoothOnly
    \/ \E t \in stitches[c] : StitchPollReturns(c, t) /\ BoothOnly
    \/ \E t \in stitches[c] : StitchPollThrows(c, t) /\ BoothOnly
    \/ ResetBooth(c) /\ BoothOnly

\* the first socket opening and the room's membership messages on it
JoinStep(c) ==
    \/ SocketOpens(c, 1) /\ RtcOnly
    \/ \E idx \in {0, 1} : RelayJoined(c, 1, idx, idx + 1) /\ RtcOnly
    \/ RelayPartnerJoined(c, 1) /\ RtcOnly

\* one mounted and online client, from its connect() to the end of its
\* sessions, with the relay and the pipeline around it; every FIRE_AT reaches
\* it late, so that its capture is due on arrival
Init == PollInit /\ \E m \in [{0} -> {SyncedMount(0, Ms, 0)}] : MountedInit({0}, m)
Next ==
    \/ FireStep(0, LateInstants)
    \/ CaptureStep(0)
    \/ StitchStep(0)
    \/ JoinStep(0)
Spec == Init /\ [][Next]_vars

\* what the browser is bound to do once it is pending: run a due timer, settle
\* the promise doCapture or triggerStitch awaits
Settles(c) ==
    \/ \E t \in timers[c] : FireTimer(c, t) /\ BoothOnly
    \/ CaptureStep(c)
    \/ \E t \in stitches[c] : StitchRequestReturns(c, t) /\ BoothOnly
    \/ \E t \in stitches[c] : StitchRequestFails(c, t) /\ BoothOnly
    \/ \E t \in stitches[c] : StitchPollReturns(c, t) /\ BoothOnly
    \/ \E t \in stitches[c] : StitchPollThrows(c, t) /\ BoothOnly

\* the same client, whose timers run and whose awaited promises settle; what
\* the relay sends and what the user clicks is not bound to happen
SpecFair == Spec /\ WF_vars(Settles(0))

\* what a step of useOfflineQueue leaves alone, and what the offline branch of
\* doCapture, which calls enqueue, leaves alone
QueueOnly == UNCHANGED <<syncVars, ticks, boothVars, rtcVars, pollVars>>
EnqueueOnly == UNCHANGED <<syncVars, ticks, rtcVars, pollVars, online, outages, dbOpen,
                           drains, drainCount, retryLog, drainLog>>

\* a joined client capturing while its connectivity comes and goes and its
\* database opens at some time: captures (one session at a time) go to the
\* upload or to the queue, 'online' events drain the queue
QueueInit == \E m \in [Clients -> {SyncedMount(0, Ms, 0)}] : JoinedInit(m)
QueueNext ==
    \/ DbOpens(0) /\ QueueOnly
    \/ GoOffline(0) /\ QueueOnly
    \/ GoOnline(0) /\ QueueOnly
    \/ \E fireAt \in LateInstants :
          /\ timers[0] = {} /\ captures[0] = {}
          /\ RelayFireAt(0, 1, NextSession(0), fireAt) /\ BoothOnly
    \/ \E t \in timers[0] : FireTimer(0, t) /\ BoothOnly
    \/ \E task \in captures[0] : CaptureOffline(0, task) /\ EnqueueOnly
    \/ \E task \in captures[0] : CaptureOnline(0, task) /\ BoothOnly
    \/ \E task \in captures[0] : EnqueueReturns(0, task) /\ BoothOnly
    \/ \E task \in captures[0] : UploadDone(0, task) /\ BoothOnly
    \/ \E task \in captures[0] : UploadFails(0, task) /\ BoothOnly
    \/ \E d \in drains[0] : DrainUploadDone(0, d) /\ QueueOnly
    \/ \E d \in drains[0] : DrainUploadFails(0, d) /\ QueueOnly
SpecQueue == QueueInit /\ [][QueueNext]_vars

\* the same, the browser running due timers and settling the promises
\* doCapture and the drains await
QueueSettles ==
    \/ \E t \in timers[0] : FireTimer(0, t) /\ BoothOnly
    \/ \E task \in captures[0] : CaptureOffline(0, task) /\ EnqueueOnly
    \/ \E task \in captures[0] : CaptureOnline(0, task) /\ BoothOnly
    \/ \E task \in captures[0] : EnqueueReturns(0, task) /\ BoothOnly
    \/ \E task \in captures[0] : UploadDone(0, task) /\ BoothOnly
    \/ \E task \in captures[0] : UploadFails(0, task) /\ BoothOnly
    \/ \E d \in drains[0] : DrainUploadDone(0, d) /\ QueueOnly
    \/ \E d \in drains[0] : DrainUploadFails(0, d) /\ QueueOnly
SpecQueueFair == SpecQueue /\ WF_vars(QueueSettles)

\* one mounted client and its connection: the socket, the room's membership
\* messages, the effect that copies peerIndex to its ref, the offer timer, the
\* peer connection, ERROR, the socket closing, disconnect()
RtcNext ==
    \/ SocketOpens(0, 1) /\ RtcOnly
    \/ \E idx \in {0, 1} : RelayJoined(0, 1, idx, idx + 1) /\ RtcOnly
    \/ PeerIndexEffect(0) /\ RtcOnly
    \/ RelayPartnerJoined(0, 1) /\ RtcOnly
    \/ OfferTimerFires(0) /\ RtcOnly
    \/ RelayOffer(0, 1) /\ RtcOnly
    \/ PeerStream(0) /\ RtcOnly
    \/ RelayPartnerLeft(0, 1) /\ RtcOnly
    \/ RelayError(0, 1) /\ RtcOnly
    \/ SocketCloses(0, 1) /\ RtcOnly
    \/ Disconnect(0) /\ RtcOnly
SpecRtc == Init /\ [][RtcNext]_vars

\* the same, React running the pending effect and the browser the due timer
SpecRtcFair ==
    SpecRtc /\ WF_vars(PeerIndexEffect(0) /\ RtcOnly) /\ WF_vars(OfferTimerFires(0) /\ RtcOnly)

\* one mounted client, whatever its estimate, joining, receiving FIRE_AT and
\* capturing while its clock advances
FireInit == PollInit /\ \E m \in [{0} -> BoothMounts] : MountedInit({0}, m)
FireNext ==
    \/ FireStep(0, FireInstants)
    \/ Tick(0) /\ UNCHANGED <<boothVars, rtcVars, pollVars, queueVars>>
    \/ JoinStep(0)
SpecFire == FireInit /\ [][FireNext]_vars

\* the two clients of a room, each with its own estimate, receiving FIRE_AT
\* within one millisecond
PairInit == \E m \in [Clients -> BoothMounts] : JoinedInit(m)
PairNext == \E c \in Clients : FireStep(c, FireInstants)
SpecPair == PairInit /\ [][PairNext]_vars

\* one client mounting: the camera, the estimate, the retry button
MountNext ==
    \/ InitStartCam(0) /\ UNCHANGED <<boothNoPhase, ticks, pollVars, queueVars>>
    \/ \E rtt \in RTTs, skew \in Skews : SampleOk(0, rtt, skew) /\ SyncOnly
    \/ \E rtt \in RTTs :
          InitCatch(0, rtt) /\ UNCHANGED <<boothNoPhase, ticks, rtcVars, pollVars, queueVars>>
    \/ PauseDone(0) /\ SyncOnly
    \/ Retry(0) /\ RtcOnly
SpecMount == IdleInit /\ [][MountNext]_vars

\* one client whose clock estimate fails after connect() has made the first
\* socket, and who then retries from the permission screen
ReconnectNext ==
    \/ InitStartCam(0) /\ UNCHANGED <<boothNoPhase, ticks, pollVars, queueVars>>
    \/ \E rtt \in RTTs, skew \in Skews : SampleOk(0, rtt, skew) /\ SyncOnly
    \/ \E rtt \in RTTs :
          InitCatch(0, rtt) /\ UNCHANGED <<boothNoPhase, ticks, rtcVars, pollVars, queueVars>>
    \/ PauseDone(0) /\ SyncOnly
    \/ Retry(0) /\ RtcOnly
    \/ \E i \in 1..MaxSockets : SocketOpens(0, i) /\ RtcOnly
    \/ \E i \in 1..MaxSockets : SocketCloses(0, i) /\ RtcOnly
SpecReconnect == IdleInit /\ [][ReconnectNext]_vars

\* one client from its mount on: the estimate being sampled while the socket
\* connect() made opens, joins and delivers FIRE_AT
StartNext ==
    \/ InitStartCam(0) /\ UNCHANGED <<boothNoPhase, ticks, pollVars, queueVars>>
    \/ \E rtt \in RTTs, skew \in Skews : SampleOk(0, rtt, skew) /\ SyncOnly
    \/ PauseDone(0) /\ SyncOnly
    \/ SocketOpens(0, 1) /\ RtcOnly
    \/ \E idx \in {0, 1} : RelayJoined(0, 1, idx, idx + 1) /\ RtcOnly
    \/ FireStep(0, {MountEnd})
SpecStart == IdleInit /\ [][StartNext]_vars

\* one client estimating its offset
SyncNext ==
    \/ SyncStart(0) /\ SyncOnly
    \/ \E rtt \in RTTs, skew \in Skews : SampleOk(0, rtt, skew) /\ SyncOnly
    \/ \E rtt \in RTTs : SampleFail(0, rtt) /\ SyncOnly
    \/ PauseDone(0) /\ SyncOnly
SpecSync == IdleInit /\ [][SyncNext]_vars

\* one call of pollStitch against an arbitrary pipeline
PollNext ==
    \/ \E m \in (0..MaxAttemptsArg) \cup {DefaultMaxAttempts} : PollCall(m) /\ PollOnly
    \/ \E data \in StatusResponses : PollIteration(data) /\ PollOnly
    \/ PollFetchFails /\ PollOnly
SpecPoll == IdleInit /\ [][PollNext]_vars

(***************************************************************************)
(* Claims                                                                  *)
(***************************************************************************)
Sum5(offs) == offs[1] + offs[2] + offs[3] + offs[4] + offs[5]

\* v is the 3rd smallest of the offsets: it is one of them, at most two are
\* smaller and at most two are larger (a statement about ranks, whatever the
\* order the samples were taken in)
IsMedian(v, offs) ==
    /\ \E i \in 1..Len(offs) : offs[i] = v
    /\ Cardinality({i \in 1..Len(offs) : offs[i] < v}) <= 2
    /\ Cardinality({i \in 1..Len(offs) : offs[i] > v}) <= 2

\* C1: when syncClock has finished, 5 samples were taken and the offset it
\* stored and the value it returned are the median (3rd smallest) of the 5
\* sample offsets, in whatever order they were taken.
C1_MedianOfFive ==
    \A c \in Clients :
        syncPc[c] = "done" =>
            /\ Len(samples[c]) = SampleCount
            /\ IsMedian(offsetRef[c], Offsets(samples[c]))
            /\ syncRet[c] = offsetRef[c]

\* C1 witness: a finished estimate over samples taken out of order whose
\* median differs from their mean.
C1_Witness ==
    /\ syncPc[0] = "done"
    /\ SampleCount * offsetRef[0] # Sum5(Offsets(samples[0]))
    /\ \E i, j \in 1..SampleCount : i < j /\ samples[0][i].offset > samples[0][j].offset

\* the fire instants client c has handled, each with the local fire time its
\* handler computed for it
LocalFireTimes(c) ==
    {<<t.fireAt, t.local>> : t \in timers[c]} \cup
    {<<e.fireAt, e.local>> : e \in captureLog[c]}

\* C2: for any fire instant that two clients have both been sent, the local
\* fire times L1 and L2 their handlers computed satisfy
\* L1 + o1 = L2 + o2 = fireAt, o1 and o2 being the clients' offsets.
C2_SameServerInstant ==
    \A p1 \in LocalFireTimes(0), p2 \in LocalFireTimes(1) :
        p1[1] = p2[1] =>
            /\ p1[2] + offsetRef[0] = p1[1]
            /\ p2[2] + offsetRef[1] = p1[1]

\* C2 witness: two clients with different offsets both hold a timer for one
\* fire instant, at different local times.
C2_Witness ==
    /\ offsetRef[0] # offsetRef[1]
    /\ \E t1 \in timers[0], t2 \in timers[1] :
          /\ t1.fireAt = t2.fireAt
          /\ t1.local # t2.local

\* C3 (as claimed): syncClock fails only when fewer than 3 of its samples
\* succeeded.
C3_FailsOnlyBelowMajority ==
    \A c \in Clients : syncPc[c] = "failed" => Len(samples[c]) < 3

\* C4 (as claimed): once syncClock has failed with the camera running (the
\* connect effect has made a socket), the offset is 0 and the phase is
\* 'waiting' or 'booth'.
C4_SyncFailureNonFatal ==
    \A c \in Clients :
        (syncPc[c] = "failed" /\ Len(sockets[c]) > 0) =>
            /\ offsetRef[c] = 0
            /\ phase[c] \in {"waiting", "booth"}

\* C5: pollStitch issues at most maxAttempts status queries, is never still
\* running once it has issued them all, and when every one of the maxAttempts
\* queries was answered with a non-terminal status it has thrown the timeout.
C5_PollBounded ==
    /\ pollQueries <= pollMax
    /\ pollPc = "running" => pollQueries < pollMax
    /\ (pollPc # "idle" /\ pollI = pollMax) =>
            /\ pollPc = "thrown"
            /\ pollResult.message = "Stitch timed out"
    /\ (pollPc = "thrown" /\ pollResult.message = "Stitch timed out") =>
            /\ pollQueries = pollMax
            /\ pollSeen \subseteq PendingStatuses

\* C5 witness: the default 20 attempts, all answered "not finished yet".
C5_Witness ==
    /\ pollMax = DefaultMaxAttempts
    /\ pollQueries = DefaultMaxAttempts
    /\ pollSeen = PendingStatuses
    /\ pollPc = "thrown"
    /\ pollResult.message = "Stitch timed out"

\* C6: pollStitch returns the job exactly when a poll reported done, and then
\* returns that poll's body; it has thrown a non-empty cause once a poll
\* reported error; and the first query that reports done or error is the last
\* query issued.
C6_StopsAtFirstTerminal ==
    /\ pollPc = "returned" <=> "done" \in pollSeen
    /\ pollPc = "returned" => pollResult \in StatusResponses /\ pollResult.status = "done"
    /\ "error" \in pollSeen =>
            /\ pollPc = "thrown"
            /\ ~Falsy(pollResult.message)
    /\ pollFirstTerminal # 0 => pollQueries = pollFirstTerminal /\ pollPc # "running"

\* C6 witness: an error status without a cause, after some unfinished polls.
C6_Witness ==
    /\ pollPc = "thrown"
    /\ pollSeen = {"queued", "error"}
    /\ pollResult.message = "Stitch failed"
    /\ pollQueries = 3

\* C7 (as claimed): while the session one of whose triggerStitch calls ended
\* in its catch (failed submission, job error, poll timeout) is still the
\* client's pending session, the status is 'error', finalUrl is unset and the
\* client's own capture is available.
C7_FailedStitchShowsError ==
    \A c \in Clients :
        pendingSessionRef[c] \in failedStitch[c] =>
            /\ stitchStatus[c] = "error"
            /\ finalUrl[c] = NoUrl
            /\ myPhotoUrl[c] # 0

\* C8: every FIRE_AT handled has exactly one capture, pending or made, for
\* its session and for the local instant fire_at_ms - offset; a pending one is
\* due at that instant, or at once when the instant had passed on arrival; a
\* capture made was not made before the local clock reached the instant.
C8_OneCaptureAtLocalInstant ==
    \A c \in Clients :
        /\ \A n \in 1..fireCount[c] :
              Cardinality({t \in timers[c] : t.n = n}) +
              Cardinality({e \in captureLog[c] : e.n = n}) = 1
        /\ \A t \in timers[c] :
              /\ t.sid = SessionOrder[t.n]
              /\ t.local = t.fireAt - offsetRef[c]
              /\ t.due = IF t.local > t.setAt THEN t.local ELSE t.setAt
        /\ \A e \in captureLog[c] :
              /\ e.sid = SessionOrder[e.n]
              /\ e.local = e.fireAt - offsetRef[c]
              /\ e.at >= e.local

\* C8 witness: one capture was made after the clock had to advance to its
\* instant, another at once because its instant had passed on arrival.
C8_Witness ==
    \E e1, e2 \in captureLog[0] :
        /\ e1.local > e1.setAt /\ e1.at >= e1.local
        /\ e2.local < e2.setAt /\ e2.at = e2.setAt

\* C9 (as claimed): a capture is made only for the newest session, the one
\* the client's pending session is when the capture starts.
C9_OnlyNewestSessionCaptures ==
    \A c \in Clients : \A e \in captureLog[c] : e.sid = e.pending

\* C10 (as claimed): every submission requestStitch made was caused by a
\* STITCH_READY whose session identifier was the client's current one.
C10_StaleReadyNeverSubmits ==
    \A c \in Clients : \A sub \in submissions[c] : sub.msgSid = sub.sid

\* C11 (as claimed): for every session, the two clients together make at most
\* one requestStitch submission on an announcement of that session, however
\* often and in whatever order the announcements are delivered.
C11_OneSubmissionPerSession ==
    \A S \in Sessions :
        Cardinality(UNION {{<<c, sub.n>> : sub \in {x \in submissions[c] :
                               x.sid = S /\ x.msgSid = S}} : c \in Clients}) <= 1

\* the client has uploaded its capture of its current session S and has
\* handled the partner's announcement for S
BothReady(c, S) ==
    /\ pendingSessionRef[c] = S
    /\ myUploadUrlRef[c].kind = "upload" /\ myUploadUrlRef[c].sid = S
    /\ \E h \in heardReady[c] : h.sid = S

\* C12 (as claimed): once a client has uploaded for session S and the
\* partner's announcement for S has been delivered to it, it eventually shows
\* 'done' or 'error' (or leaves the session by resetBooth).
C12_StitchingEnds ==
    \A c \in Clients : \A S \in Sessions :
        BothReady(c, S) ~> (stitchStatus[c] \in {"done", "error"} \/ ~BothReady(c, S))

StoredIds(S) == {x.id : x \in S}

\* C13 (as claimed): every step in which doCapture calls enqueue(item) leaves
\* the item in the persistent store, whether the database has opened or not.
C13_EnqueuedIsStored ==
    [][\A c \in Clients : \A task \in captures[c] :
          (task.pc = "still" /\ [task EXCEPT !.pc = "enqueued"] \in captures'[c])
              => task.sid \in StoredIds(store'[c])]_vars

\* C14: an item leaves the store only in the step in which a drain's upload of
\* that item has resolved, and a step in which a drain's upload is rejected
\* leaves the store as it is, however many drains run.
C14_RemovedOnlyAfterUpload ==
    [][\A c \in Clients :
          LET ended == retryLog'[c] \ retryLog[c]
          IN /\ \A x \in store[c] :
                   x.id \notin StoredIds(store'[c])
                       => \E e \in ended : e.ok /\ e.sid = x.sid
             /\ \A e \in ended : ~e.ok => store'[c] = store[c]]_vars

\* two drains ran together: an upload of one item was rejected and the item
\* is still stored, the upload of another resolved and that item is gone
C14_Witness ==
    \E c \in Clients : \E e1, e2 \in retryLog[c] :
        /\ drainCount[c] = 2
        /\ e1.ok /\ e1.sid \notin StoredIds(store[c])
        /\ ~e2.ok /\ e2.sid \in StoredIds(store[c])

\* C15 (as claimed): every step in which the immediate upload of a capture is
\* rejected leaves the capture in the queue (the database being open).
C15_FailedUploadEnqueued ==
    [][\A c \in Clients : \A task \in captures[c] :
          (/\ dbOpen[c]
           /\ task.pc = "upload"
           /\ task \notin captures'[c]
           /\ stitchStatus'[c] = "error")
              => task.sid \in StoredIds(store'[c])]_vars

\* C16 (as claimed): once a drain has uploaded the queued capture of session
\* S, the client eventually announces STITCH_READY for S with the url of that
\* upload.
C16_DrainedUploadAnnounced ==
    \A c \in Clients : \A S \in Sessions : \A x \in IndexVals :
        (\E e \in retryLog[c] : e.ok /\ e.sid = S /\ e.idx = x)
            ~> (\E m \in sentReady[c] : m.sid = S /\ m.url = UploadUrl(S, x))

\* C17 (as claimed): a client to which PARTNER_JOINED was delivered while its
\* assigned slot was 0 eventually makes an initiator peer connection, whenever
\* PARTNER_JOINED follows JOINED; and every initiator is made by a client in
\* slot 0.
C17_SlotZeroInitiates ==
    /\ \A c \in Clients :
          (\E j \in 1..Len(joinLog[c]) : joinLog[c][j] = 0)
              ~> (\E p \in peersMade[c] : p.initiator)
    /\ [](\A c \in Clients : \A p \in peersMade[c] : p.initiator => p.idx = 0)

\* C18 (as claimed): while the client's current connection is one on which an
\* ERROR message was delivered, the connection state is 'error'.
C18_ErrorStateSticks ==
    \A c \in Clients :
        (Len(sockets[c]) > 0 /\ sockets[c][Len(sockets[c])].err) => rtcState[c] = "error"

\* C19: the step that handles PARTNER_LEFT leaves the occupant count at 1, no
\* peer connection, no remote stream, and the phase at 'waiting' if it was
\* 'booth'.
C19_PartnerLeftResets ==
    [][\A c \in Clients :
          leftLog'[c] # leftLog[c] =>
              /\ peerCount'[c] = 1
              /\ peerRef'[c] = "null"
              /\ remoteStream'[c] = FALSE
              /\ (phase[c] = "booth" => phase'[c] = "waiting")]_vars

\* PARTNER_LEFT found the phase 'booth', a peer connection and a remote
\* stream, and left the client waiting alone without them
C19_Witness ==
    \E c \in Clients : \E e \in leftLog[c] :
        /\ e.peer # "null" /\ e.stream /\ e.phase = "booth"
        /\ peerCount[c] = 1 /\ peerRef[c] = "null" /\ ~remoteStream[c]
        /\ phase[c] = "waiting"

\* C20 (as claimed): no FIRE_AT is handled, and so converted to local time,
\* while syncClock is still sampling.
C20_NoFireAtDuringSync ==
    \A c \in Clients : syncPc[c] \in {"fetch", "pause"} => fireCount[c] = 0

\* C21: every sample offset syncClock computed is serverT + (t1 - t0)/2 - t1
\* (doubled, so that the half is exact): t0 the local send time, t1 the local
\* receive time, serverT the instant the time authority returned.
C21_SampleOffsetFormula ==
    \A c \in Clients : \A j \in 1..Len(samples[c]) :
        LET s == samples[c][j]
        IN 2 * s.offset = 2 * s.server + (s.t3 - s.t0) - 2 * s.t3

\* a sample whose round trip took time and whose authority instant differs
\* from the local send time
C21_Witness ==
    \E c \in Clients : \E j \in 1..Len(samples[c]) :
        /\ samples[c][j].t3 > samples[c][j].t0
        /\ samples[c][j].server # samples[c][j].t0
        /\ syncPc[c] = "done"

\* C22: a STITCH_READY is sent only in the step in which the client's upload
\* for that session resolved (the status becomes 'stitching'), and it carries
\* that session and the url that upload returned, which is also kept in
\* myUploadUrlRef; no other step (offline capture, failed capture or upload,
\* drain) sends one.
C22_ReadyOnlyAfterOwnUpload ==
    [][\A c \in Clients : \A m \in sentReady'[c] \ sentReady[c] :
          \E task \in captures[c] :
              /\ task.pc = "upload" /\ task \notin captures'[c]
              /\ stitchStatus'[c] = "stitching"
              /\ m.sid = task.sid
              /\ m.url = UploadUrl(task.sid, task.idx)
              /\ myUploadUrlRef'[c] = m.url]_vars

\* one session was announced after its upload, another was captured (offline,
\* or its upload failed) and, its capture over, was not announced
C22_Witness ==
    \E c \in Clients : \E m \in sentReady[c] : \E e \in captureLog[c] :
        /\ captures[c] = {}
        /\ \E e1 \in captureLog[c] : e1.sid = m.sid
        /\ \A m2 \in sentReady[c] : m2.sid # e.sid

\* C23 (as claimed): the peer index in every STITCH_READY the client sent, in
\* every item it queued, and the index each of its submissions compared the
\* announcement against, is the slot index JOINED assigned it.
C23_AssignedIndexUsed ==
    \A c \in Clients :
        /\ \A m \in sentReady[c] : m.idx = peerIndex[c]
        /\ \A x \in store[c] : x.idx = peerIndex[c]
        /\ \A sub \in submissions[c] : sub.k = peerIndex[c]

\* the asset of a submission that is the submitting client's own upload
OwnAsset(sub) == IF sub.k = 0 THEN sub.urlA ELSE sub.urlB

\* C24 (as claimed): both assets of every submission for session S were
\* uploaded for S, and the submitting client's own asset is url_a if it was
\* assigned slot 0 and url_b if it was assigned slot 1.
C24_SubmissionAssets ==
    \A c \in Clients : \A sub \in submissions[c] :
        /\ sub.urlA.sid = sub.sid
        /\ sub.urlB.sid = sub.sid
        /\ peerIndex[c] = 0 => OwnAsset(sub) = sub.urlA
        /\ peerIndex[c] = 1 => OwnAsset(sub) = sub.urlB

\* the items a drain has still to attempt
DrainRest(c, n) ==
    UNION {{d.todo[j].id : j \in 1..Len(d.todo)} : d \in {x \in drains[c] : x.n = n}}

\* C25: for every drain, the items whose upload it has attempted and the
\* items it has still to attempt are together the items that were in the
\* store when it started, each attempted once; a drain that has ended has
\* attempted them all, whichever uploads were rejected.
C25_DrainAttemptsEachOnce ==
    \A c \in Clients : \A g \in drainLog[c] :
        LET ended == {e \in retryLog[c] : e.n = g.n}
            tried == {e.sid : e \in ended}
        IN /\ tried \cup DrainRest(c, g.n) = g.items
           /\ tried \cap DrainRest(c, g.n) = {}
           /\ Cardinality(ended) = Cardinality(tried)

\* a drain of two items has ended: the upload of the first was rejected and
\* the second was attempted all the same
C25_Witness ==
    \E c \in Clients : \E g \in drainLog[c] : \E e1, e2 \in retryLog[c] :
        /\ Cardinality(g.items) = 2
        /\ DrainRest(c, g.n) = {}
        /\ e1.n = g.n /\ e2.n = g.n
        /\ e1.sid < e2.sid /\ ~e1.ok

\* disconnect() was called and connect() has not been called since
Disconnected(c) ==
    Len(sockets[c]) > 0 /\ sockets[c][Len(sockets[c])].st \in {"closing", "shut"}

\* C26 (as claimed): while the last membership message handled is
\* PARTNER_LEFT (the count is 1 again), and after disconnect(), the client
\* holds no peer connection.
C26_NoPeerAfterPartnerLeft ==
    \A c \in Clients :
        ((leftLog[c] # {} /\ peerCount[c] = 1) \/ Disconnected(c)) => peerRef[c] = "null"

\* C28 (as claimed): from disconnect() to the next connect() the connection
\* state is 'idle'.
C28_IdleAfterDisconnect ==
    \A c \in Clients : Disconnected(c) => rtcState[c] = "idle"

\* the WebSockets of a client that are open
OpenSockets(c) == {i \in 1..Len(sockets[c]) : sockets[c][i].st = "open"}

\* C27 (as claimed): a client never has two relay connections open at once.
C27_OneOpenSocket == \A c \in Clients : Cardinality(OpenSockets(c)) <= 1

\* C29 (as claimed): a client in the 'countdown' or 'flash' phase eventually
\* reaches the 'result' phase.
C29_FireReachesResult ==
    \A c \in Clients : (phase[c] \in {"countdown", "flash"}) ~> (phase[c] = "result")

\* C30 (as claimed): a step that takes a client out of the 'result' phase is
\* resetBooth, which leaves it in 'booth' or 'waiting' with the stitch status,
\* the pending session and the uploaded url cleared.
C30_ResultLeftByResetOnly ==
    [][\A c \in Clients :
          (phase[c] = "result" /\ phase'[c] # "result")
              => /\ phase'[c] \in {"booth", "waiting"}
                 /\ stitchStatus'[c] = "null"
                 /\ pendingSessionRef'[c] = NoSession
                 /\ myUploadUrlRef'[c] = NoUrl]_vars

=============================================================================
